---- MODULE Spec2Model ----
(***************************************************************************)
(* cyber-watchdog: src/lang/rust/src/main.rs                               *)
(*                                                                         *)
(* main() lists /sys/class/net, drops "lo", falls back to ["eth0"] when    *)
(* the directory cannot be read, then for each name runs `ip link set <i>  *)
(* up` and `dhclient -1 -q <i>` (printing "<i> up" when dhclient           *)
(* succeeded), then runs `ping -c1 -W3 8.8.8.8`, prints ONLINE / OFFLINE   *)
(* and exits with 0 / 1.                                                   *)
(*                                                                         *)
(* The environment (directory content, outcome of every external command)  *)
(* is nondeterministic.  Command::status() is modelled in its two steps:   *)
(* the spawn (which may fail: no child) and the wait for the child's exit. *)
(* `trace` is the history of spawn / exit events, in program order.        *)
(***************************************************************************)
EXTENDS Integers, Sequences, FiniteSets, TLC

VARIABLES registry, pc, ifaces, idx, ok, stdout, exitCode, trace

vars == <<registry, pc, ifaces, idx, ok, stdout, exitCode, trace>>

\* Largest number of entries a directory listing has in the model.
MaxEntries == 3

(***************************************************************************)
(* The interface registry: what fs::read_dir("/sys/class/net") yields.     *)
(* File names are byte strings (OsString); ok = FALSE is an entry whose    *)
(* read failed (the iterator's Err item).                                  *)
(***************************************************************************)
RawLo == <<108, 111>>
RawEth0 == <<101, 116, 104, 48>>
RawWlan0 == <<119, 108, 97, 110, 48>>
\* "lo" followed by the byte 0xFF, which is not valid UTF-8
RawLoFF == <<108, 111, 255>>

RawNames == {RawLo, RawEth0, RawWlan0, RawLoFF}

ErrEntry == [ok |-> FALSE, name |-> <<>>]

DirEntries == {[ok |-> TRUE, name |-> n] : n \in RawNames} \cup {ErrEntry}

\* A directory holds each file name once.
DistinctNames(es) ==
    \A a, b \in 1..Len(es) :
        (a # b /\ es[a].ok /\ es[b].ok) => es[a].name # es[b].name

Listings ==
    UNION {{es \in [1..n -> DirEntries] : DistinctNames(es)} : n \in 0..MaxEntries}

ReadFailed == [ok |-> FALSE, entries |-> <<>>]

Registries == {[ok |-> TRUE, entries |-> es] : es \in Listings} \cup {ReadFailed}

(***************************************************************************)
(* OsStr::to_string_lossy: valid UTF-8 is kept, every invalid byte becomes *)
(* U+FFFD (written here as the escape "\\u{FFFD}").  The model's names use *)
(* ASCII bytes and 0xFF only.                                              *)
(***************************************************************************)
Replacement == "\\u{FFFD}"

AsciiChar(b) ==
    CASE b = 48 -> "0"
      [] b = 97 -> "a"
      [] b = 101 -> "e"
      [] b = 104 -> "h"
      [] b = 108 -> "l"
      [] b = 110 -> "n"
      [] b = 111 -> "o"
      [] b = 116 -> "t"
      [] b = 119 -> "w"

RECURSIVE ToStringLossy(_)
ToStringLossy(bytes) ==
    IF bytes = <<>> THEN ""
    ELSE (IF Head(bytes) < 128 THEN AsciiChar(Head(bytes)) ELSE Replacement)
         \o ToStringLossy(Tail(bytes))

RECURSIVE Filter(_, _)
\* e.filter_map(|e| e.ok()).map(file_name lossy).filter(|n| n != "lo").collect()
Filter(es, skipLo) ==
    IF es = <<>> THEN <<>>
    ELSE LET e == Head(es)
             n == ToStringLossy(e.name)
         IN  IF e.ok /\ ~(skipLo /\ n = "lo")
             THEN <<n>> \o Filter(Tail(es), skipLo)
             ELSE Filter(Tail(es), skipLo)

\* Variant: the fallback vector is left empty.
Fallback_Empty == <<>>

Fallback == <<"eth0">>

\* Variant: the filter on "lo" is missing.
Enumerate_KeepLo(reg) ==
    IF reg.ok THEN Filter(reg.entries, FALSE) ELSE <<"eth0">>

\* Variant: the fallback also replaces an empty result of a successful read.
Enumerate_FallbackWhenEmpty(reg) ==
    IF reg.ok /\ Filter(reg.entries, TRUE) # <<>>
    THEN Filter(reg.entries, TRUE)
    ELSE <<"eth0">>

\* main.rs lines 4-6: the working set computed from the read_dir result
Enumerate(reg) ==
    IF reg.ok THEN Filter(reg.entries, TRUE) ELSE Fallback

(***************************************************************************)
(* External commands                                                       *)
(***************************************************************************)
LinkArgs(i) == <<"link", "set", i, "up">>
DhcpArgs(i) == <<"-1", "-q", i>>
PingArgs == <<"-c1", "-W3", "8.8.8.8">>

\* How a launched child ends: ExitStatus::success() or not
ExitStatuses == {"success", "nonzero"}

\* Variant: unwrap_or(true), a command that cannot be launched counts as a success.
StatusOk_UnwrapOrTrue(outcome) == outcome # "nonzero"

\* .status().map(|s| s.success()).unwrap_or(false); "launchfail" is Err
StatusOk(outcome) == outcome = "success"

SpawnEv(cmd, args) == [ev |-> "spawn", cmd |-> cmd, args |-> args, st |-> ""]
SpawnErrEv(cmd, args) == [ev |-> "spawn_err", cmd |-> cmd, args |-> args, st |-> ""]
ExitEv(cmd, args, st) == [ev |-> "exit", cmd |-> cmd, args |-> args, st |-> st]

\* Variant: the line is put in front of the output.
Println_Prepend(out, line) == <<line>> \o out

Println(out, line) == Append(out, line)

\* Variant: the two status words are exchanged.
StatusLine_Swapped(b) == IF b THEN "OFFLINE" ELSE "ONLINE"

StatusLine(b) == IF b THEN "ONLINE" ELSE "OFFLINE"

\* Variant: the two exit codes are exchanged.
ExitCodeOf_Swapped(b) == IF b THEN 1 ELSE 0

ExitCodeOf(b) == IF b THEN 0 ELSE 1

(***************************************************************************)
(* The program                                                             *)
(***************************************************************************)
Init ==
    /\ registry \in Registries
    /\ pc = "read_dir"
    /\ ifaces = <<>>
    /\ idx = 1
    /\ ok = FALSE
    /\ stdout = <<>>
    /\ exitCode = -1
    /\ trace = <<>>

\* lines 4-6
ReadDir ==
    /\ pc = "read_dir"
    /\ ifaces' = Enumerate(registry)
    /\ idx' = 1
    /\ pc' = "for"
    /\ UNCHANGED <<registry, ok, stdout, exitCode, trace>>

\* line 7: the iterator yields the next name
ForBody ==
    /\ pc = "for"
    /\ idx <= Len(ifaces)
    /\ pc' = "link_spawn"
    /\ UNCHANGED <<registry, ifaces, idx, ok, stdout, exitCode, trace>>

\* line 7 / 10: the iterator is exhausted
ForEnd ==
    /\ pc = "for"
    /\ idx > Len(ifaces)
    /\ pc' = "ping_spawn"
    /\ UNCHANGED <<registry, ifaces, idx, ok, stdout, exitCode, trace>>

\* Variant: spawn() in place of status(), ip is not waited for.
LinkSpawn_NoWait ==
    /\ pc = "link_spawn"
    /\ \E launched \in BOOLEAN :
         IF launched
         THEN trace' = Append(trace, SpawnEv("ip", LinkArgs(ifaces[idx])))
         ELSE trace' = Append(trace, SpawnErrEv("ip", LinkArgs(ifaces[idx])))
    /\ pc' = "dhcp_spawn"
    /\ UNCHANGED <<registry, ifaces, idx, ok, stdout, exitCode>>

\* line 8: Command::new("ip")...status(), the spawn; its result is dropped
LinkSpawn ==
    /\ pc = "link_spawn"
    /\ \E launched \in BOOLEAN :
         IF launched
         THEN /\ trace' = Append(trace, SpawnEv("ip", LinkArgs(ifaces[idx])))
              /\ pc' = "link_wait"
         ELSE /\ trace' = Append(trace, SpawnErrEv("ip", LinkArgs(ifaces[idx])))
              /\ pc' = "dhcp_spawn"
    /\ UNCHANGED <<registry, ifaces, idx, ok, stdout, exitCode>>

\* line 8: the wait for ip; `let _ =` ignores the status
LinkWait ==
    /\ pc = "link_wait"
    /\ \E st \in ExitStatuses :
         trace' = Append(trace, ExitEv("ip", LinkArgs(ifaces[idx]), st))
    /\ pc' = "dhcp_spawn"
    /\ UNCHANGED <<registry, ifaces, idx, ok, stdout, exitCode>>

\* Variant: unwrap() on the status() result, a launch failure panics (exit code 101).
DhcpSpawn_Unwrap ==
    /\ pc = "dhcp_spawn"
    /\ \E launched \in BOOLEAN :
         IF launched
         THEN /\ trace' = Append(trace, SpawnEv("dhclient", DhcpArgs(ifaces[idx])))
              /\ pc' = "dhcp_wait"
              /\ UNCHANGED exitCode
         ELSE /\ trace' = Append(trace, SpawnErrEv("dhclient", DhcpArgs(ifaces[idx])))
              /\ exitCode' = 101
              /\ pc' = "done"
    /\ UNCHANGED <<registry, ifaces, idx, ok, stdout>>

\* line 9: Command::new("dhclient")...status(), the spawn; Err is unwrap_or(false)
DhcpSpawn ==
    /\ pc = "dhcp_spawn"
    /\ \E launched \in BOOLEAN :
         IF launched
         THEN /\ trace' = Append(trace, SpawnEv("dhclient", DhcpArgs(ifaces[idx])))
              /\ pc' = "dhcp_wait"
              /\ UNCHANGED <<idx, stdout>>
         ELSE /\ trace' = Append(trace, SpawnErrEv("dhclient", DhcpArgs(ifaces[idx])))
              /\ stdout' = IF StatusOk("launchfail")
                           THEN Println(stdout, ifaces[idx] \o " up")
                           ELSE stdout
              /\ idx' = idx + 1
              /\ pc' = "for"
    /\ UNCHANGED <<registry, ifaces, ok, exitCode>>

\* Variant: a dhclient failure leaves the loop.
DhcpWait_BreakOnFailure ==
    /\ pc = "dhcp_wait"
    /\ \E st \in ExitStatuses :
         /\ trace' = Append(trace, ExitEv("dhclient", DhcpArgs(ifaces[idx]), st))
         /\ stdout' = IF st = "success"
                      THEN Append(stdout, ifaces[idx] \o " up")
                      ELSE stdout
         /\ pc' = IF st = "success" THEN "for" ELSE "ping_spawn"
    /\ idx' = idx + 1
    /\ UNCHANGED <<registry, ifaces, ok, exitCode>>

\* line 9: the wait for dhclient, and the println of the confirmation
DhcpWait ==
    /\ pc = "dhcp_wait"
    /\ \E st \in ExitStatuses :
         /\ trace' = Append(trace, ExitEv("dhclient", DhcpArgs(ifaces[idx]), st))
         /\ stdout' = IF StatusOk(st)
                      THEN Println(stdout, ifaces[idx] \o " up")
                      ELSE stdout
    /\ idx' = idx + 1
    /\ pc' = "for"
    /\ UNCHANGED <<registry, ifaces, ok, exitCode>>

\* line 11: Command::new("ping")...status(), the spawn
PingSpawn ==
    /\ pc = "ping_spawn"
    /\ \E launched \in BOOLEAN :
         IF launched
         THEN /\ trace' = Append(trace, SpawnEv("ping", PingArgs))
              /\ pc' = "ping_wait"
              /\ UNCHANGED ok
         ELSE /\ trace' = Append(trace, SpawnErrEv("ping", PingArgs))
              /\ ok' = StatusOk("launchfail")
              /\ pc' = "println"
    /\ UNCHANGED <<registry, ifaces, idx, stdout, exitCode>>

\* line 11: the wait for ping
PingWait ==
    /\ pc = "ping_wait"
    /\ \E st \in ExitStatuses :
         /\ trace' = Append(trace, ExitEv("ping", PingArgs, st))
         /\ ok' = StatusOk(st)
    /\ pc' = "println"
    /\ UNCHANGED <<registry, ifaces, idx, stdout, exitCode>>

\* line 12
PrintStatus ==
    /\ pc = "println"
    /\ stdout' = Println(stdout, StatusLine(ok))
    /\ pc' = "exit"
    /\ UNCHANGED <<registry, ifaces, idx, ok, exitCode, trace>>

\* line 13
Exit ==
    /\ pc = "exit"
    /\ exitCode' = ExitCodeOf(ok)
    /\ pc' = "done"
    /\ UNCHANGED <<registry, ifaces, idx, ok, stdout, trace>>

Next ==
    \/ ReadDir
    \/ ForBody
    \/ ForEnd
    \/ LinkSpawn
    \/ LinkWait
    \/ DhcpSpawn
    \/ DhcpWait
    \/ PingSpawn
    \/ PingWait
    \/ PrintStatus
    \/ Exit

Spec == Init /\ [][Next]_vars

\* The process is scheduled until it exits, and every launched child exits.
FairSpec == Spec /\ WF_vars(Next)

(***************************************************************************)
(* Observations on the history                                             *)
(***************************************************************************)
RECURSIVE Started(_)
\* The invocations begun (launched or failed to launch), in order.
Started(t) ==
    IF t = <<>> THEN <<>>
    ELSE LET e == Head(t)
         IN  IF e.ev = "exit" THEN Started(Tail(t))
             ELSE <<[cmd |-> e.cmd, args |-> e.args]>> \o Started(Tail(t))

Range(s) == {s[k] : k \in 1..Len(s)}

\* The events that end an invocation: a failed spawn or the child's exit.
Finished == {j \in 1..Len(trace) : trace[j].ev # "spawn"}

OutcomeAt(j) == IF trace[j].ev = "spawn_err" THEN "launchfail" ELSE trace[j].st

\* The finished invocations of a command with the given arguments.
CallsOf(cmd, args) ==
    {j \in Finished : trace[j].cmd = cmd /\ trace[j].args = args}

OutcomeIs(cmd, args, o) == \E j \in CallsOf(cmd, args) : OutcomeAt(j) = o

DhcpSucceeded(i) == OutcomeIs("dhclient", DhcpArgs(i), "success")

LinkOutcomeIs(i, o) == OutcomeIs("ip", LinkArgs(i), o)

PingOutcomeIs(o) == OutcomeIs("ping", PingArgs, o)

Printed(line) == \E j \in 1..Len(stdout) : stdout[j] = line

Outcomes == {"success", "nonzero", "launchfail"}

(***************************************************************************)
(* C1  Confirmation correlation: for every interface of the working set    *)
(* the line "<i> up" is on standard output if and only if the dhclient     *)
(* invocation for i launched and exited with success, whatever the outcome *)
(* of the `ip link set i up` invocation before it was.                     *)
(***************************************************************************)
C1_ConfirmationCorrelation ==
    \A k \in 1..Len(ifaces) :
        Printed(ifaces[k] \o " up") <=> DhcpSucceeded(ifaces[k])

\* ip failed to launch for an interface, dhclient succeeded, and the line is there;
\* for another interface ip succeeded, dhclient failed to launch, and no line.
C1_Witness ==
    /\ pc = "done"
    /\ \E a, b \in 1..Len(ifaces) :
         /\ LinkOutcomeIs(ifaces[a], "launchfail")
         /\ DhcpSucceeded(ifaces[a])
         /\ Printed(ifaces[a] \o " up")
         /\ LinkOutcomeIs(ifaces[b], "success")
         /\ ~DhcpSucceeded(ifaces[b])
         /\ ~Printed(ifaces[b] \o " up")

(***************************************************************************)
(* C2  Exit code correlation: the process exits with 0 if and only if ping *)
(* launched and exited with success, and with 1 otherwise; no other exit   *)
(* code is produced; the last line printed is ONLINE exactly when the code *)
(* is 0 and OFFLINE when it is 1.                                          *)
(***************************************************************************)
C2_ExitCodeCorrelation ==
    /\ pc # "done" => exitCode = -1
    /\ pc = "done" =>
         /\ exitCode \in {0, 1}
         /\ exitCode = 0 <=> PingOutcomeIs("success")
         /\ exitCode = 1 <=> (PingOutcomeIs("nonzero") \/ PingOutcomeIs("launchfail"))
         /\ stdout # <<>>
         /\ stdout[Len(stdout)] = "ONLINE" <=> exitCode = 0
         /\ stdout[Len(stdout)] = "OFFLINE" <=> exitCode = 1

\* ping could not be launched: exit code 1 after OFFLINE
C2_Witness ==
    /\ pc = "done"
    /\ PingOutcomeIs("launchfail")
    /\ exitCode = 1
    /\ stdout[Len(stdout)] = "OFFLINE"

(***************************************************************************)
(* Observations on the registry                                            *)
(***************************************************************************)
\* The positions of the listing whose entry was read and is not named "lo".
KeptEntries ==
    {k \in 1..Len(registry.entries) :
        registry.entries[k].ok /\ ToStringLossy(registry.entries[k].name) # "lo"}

Enumerated == pc # "read_dir"

ProbeReached == pc \in {"ping_spawn", "ping_wait", "println", "exit", "done"}

\* A finished link-up and a finished DHCP invocation for the same name.
ActivationPairDone ==
    \E i \in Range(ifaces) :
        CallsOf("ip", LinkArgs(i)) # {} /\ CallsOf("dhclient", DhcpArgs(i)) # {}

(***************************************************************************)
(* C3  As claimed: whatever the registry read yields (failure, any         *)
(* listing, the empty one or one holding only "lo" included), the working  *)
(* set is not empty and at least one link-up + DHCP pair is performed      *)
(* before the probe.                                                       *)
(***************************************************************************)
C3_Original_AlwaysOneCycle ==
    /\ Enumerated => ifaces # <<>>
    /\ ProbeReached => ActivationPairDone

(***************************************************************************)
(* C3  As amended: the working set is empty exactly when the read          *)
(* succeeded and no entry was read whose name is other than "lo"; when it  *)
(* is not empty a link-up + DHCP pair is performed before the probe, and   *)
(* when it is empty the probe is the first and only invocation.            *)
(***************************************************************************)
C3_Amended_CycleUnlessNothingListed ==
    /\ Enumerated => (ifaces = <<>> <=> (registry.ok /\ KeptEntries = {}))
    /\ (ProbeReached /\ ifaces # <<>>) => ActivationPairDone
    /\ (ProbeReached /\ ifaces = <<>>) =>
          \A j \in 1..Len(trace) : trace[j].cmd = "ping"

\* A listing that holds "lo" alone: nothing is activated, the probe still runs.
C3_Witness ==
    /\ pc = "done"
    /\ registry.ok
    /\ registry.entries = <<[ok |-> TRUE, name |-> RawLo]>>
    /\ ifaces = <<>>
    /\ Cardinality(Finished) = 1

(***************************************************************************)
(* C4  Fallback guarantee: when reading the registry fails the working set *)
(* is exactly <<"eth0">>, the activation cycle is performed for that name  *)
(* and then the probe; the process does not exit before the probe.         *)
(***************************************************************************)
C4_FallbackGuarantee ==
    ~registry.ok =>
        /\ Enumerated => ifaces = <<"eth0">>
        /\ ProbeReached =>
             /\ CallsOf("ip", LinkArgs("eth0")) # {}
             /\ CallsOf("dhclient", DhcpArgs("eth0")) # {}
        /\ pc = "done" =>
             /\ Cardinality(Finished) = 3
             /\ trace[Len(trace)].cmd = "ping"
        /\ exitCode # -1 => CallsOf("ping", PingArgs) # {}

\* The read failed, both commands for eth0 failed to launch, the probe ran.
C4_Witness ==
    /\ ~registry.ok
    /\ pc = "done"
    /\ LinkOutcomeIs("eth0", "launchfail")
    /\ OutcomeIs("dhclient", DhcpArgs("eth0"), "launchfail")
    /\ PingOutcomeIs("nonzero")

(***************************************************************************)
(* C5  Loopback exclusion: the working set never holds "lo", no command is *)
(* ever invoked with "lo" as its interface and "lo up" is never printed;   *)
(* every other entry that was read is kept in the working set, in order.   *)
(***************************************************************************)
C5_LoopbackExclusion ==
    /\ \A k \in 1..Len(ifaces) : ifaces[k] # "lo"
    /\ \A j \in 1..Len(trace) :
         /\ trace[j].args # LinkArgs("lo")
         /\ trace[j].args # DhcpArgs("lo")
    /\ ~Printed("lo up")
    /\ (Enumerated /\ registry.ok) =>
         LET kept == KeptEntries
         IN  /\ Len(ifaces) = Cardinality(kept)
             /\ \A k \in kept :
                  ifaces[Cardinality({j \in kept : j <= k})] =
                     ToStringLossy(registry.entries[k].name)

\* "lo" is listed between two other names, which are both kept and activated.
C5_Witness ==
    /\ pc = "done"
    /\ registry.ok
    /\ Len(registry.entries) = 3
    /\ registry.entries[2] = [ok |-> TRUE, name |-> RawLo]
    /\ registry.entries[1] = [ok |-> TRUE, name |-> RawLoFF]
    /\ Len(ifaces) = 2
    /\ DhcpSucceeded(ifaces[1])
    /\ DhcpSucceeded(ifaces[2])

(***************************************************************************)
(* Observations on a finished run                                          *)
(***************************************************************************)
\* Some link-up or DHCP invocation for the name did not succeed.
ActivationFailed(i) ==
    \E j \in CallsOf("ip", LinkArgs(i)) \cup CallsOf("dhclient", DhcpArgs(i)) :
        OutcomeAt(j) # "success"

RECURSIVE UpLines(_)
\* The confirmation lines of the names whose DHCP invocation succeeded, in order.
UpLines(names) ==
    IF names = <<>> THEN <<>>
    ELSE (IF DhcpSucceeded(Head(names)) THEN <<Head(names) \o " up">> ELSE <<>>)
         \o UpLines(Tail(names))

StatusLines == {"ONLINE", "OFFLINE"}

RECURSIVE Expected(_)
\* The invocations of a whole run over the names, in program order.
Expected(names) ==
    IF names = <<>> THEN <<[cmd |-> "ping", args |-> PingArgs]>>
    ELSE <<[cmd |-> "ip", args |-> LinkArgs(Head(names))],
           [cmd |-> "dhclient", args |-> DhcpArgs(Head(names))]>>
         \o Expected(Tail(names))

IsPrefix(s, t) == Len(s) <= Len(t) /\ \A k \in 1..Len(s) : s[k] = t[k]

(***************************************************************************)
(* C6  Best-effort independence: when a link-up or DHCP invocation for an  *)
(* interface A fails (nonzero exit or launch failure), every other         *)
(* interface B of the working set still gets its link-up and its DHCP      *)
(* invocation, and the exit code and the status line are those the probe   *)
(* outcome alone determines.                                               *)
(***************************************************************************)
C6_BestEffortIndependence ==
    pc = "done" =>
        \A a \in 1..Len(ifaces) :
            ActivationFailed(ifaces[a]) =>
                /\ \A b \in 1..Len(ifaces) :
                     /\ CallsOf("ip", LinkArgs(ifaces[b])) # {}
                     /\ CallsOf("dhclient", DhcpArgs(ifaces[b])) # {}
                /\ \A o \in Outcomes :
                     PingOutcomeIs(o) =>
                        /\ exitCode = (IF o = "success" THEN 0 ELSE 1)
                        /\ stdout[Len(stdout)] =
                              (IF o = "success" THEN "ONLINE" ELSE "OFFLINE")

\* The first interface fails in both commands, the second is confirmed, exit 0.
C6_Witness ==
    /\ pc = "done"
    /\ Len(ifaces) >= 2
    /\ LinkOutcomeIs(ifaces[1], "nonzero")
    /\ ActivationFailed(ifaces[1])
    /\ ~DhcpSucceeded(ifaces[1])
    /\ DhcpSucceeded(ifaces[2])
    /\ exitCode = 0

(***************************************************************************)
(* C7  Standard-output shape: the output is the "<iface> up" lines, in the *)
(* order of their interfaces in the working set, followed, once the status *)
(* is printed, by exactly one status line, which stays the last line.      *)
(***************************************************************************)
C7_StdoutShape ==
    LET n == Len(stdout)
        statusAt == {j \in 1..n : stdout[j] \in StatusLines}
    IN  /\ pc \in {"exit", "done"} =>
             /\ n >= 1
             /\ statusAt = {n}
             /\ SubSeq(stdout, 1, n - 1) = UpLines(ifaces)
        /\ pc \notin {"exit", "done"} =>
             /\ statusAt = {}
             /\ stdout = UpLines(ifaces)

\* Two confirmations, out of three interfaces, and then the status line.
C7_Witness ==
    /\ pc = "done"
    /\ Len(ifaces) = 3
    /\ ~DhcpSucceeded(ifaces[2])
    /\ stdout = <<ifaces[1] \o " up", ifaces[3] \o " up", "OFFLINE">>

(***************************************************************************)
(* C8  End-to-end scenario: the registry lists lo, eth0, wlan0 in that     *)
(* order, every link-up succeeds, DHCP succeeds for eth0 only and the      *)
(* probe succeeds: the output is "eth0 up" then "ONLINE", the exit code 0. *)
(***************************************************************************)
ScenarioRegistry ==
    [ok |-> TRUE,
     entries |-> <<[ok |-> TRUE, name |-> RawLo],
                   [ok |-> TRUE, name |-> RawEth0],
                   [ok |-> TRUE, name |-> RawWlan0]>>]

ScenarioRun ==
    /\ registry = ScenarioRegistry
    /\ pc = "done"
    /\ \A j \in Finished : trace[j].cmd = "ip" => OutcomeAt(j) = "success"
    /\ \A j \in Finished :
         trace[j].cmd = "dhclient" =>
            (OutcomeAt(j) = "success" <=> trace[j].args = DhcpArgs("eth0"))
    /\ PingOutcomeIs("success")

C8_EndToEndScenario ==
    ScenarioRun => (stdout = <<"eth0 up", "ONLINE">> /\ exitCode = 0)

\* The scenario, with dhclient exiting nonzero for wlan0.
C8_Witness ==
    /\ ScenarioRun
    /\ OutcomeIs("dhclient", DhcpArgs("wlan0"), "nonzero")
    /\ Cardinality(Finished) = 5

(***************************************************************************)
(* C9  Stage ordering: the invocations begun so far are an initial part of *)
(* link-up(i1), DHCP(i1), link-up(i2), DHCP(i2), ..., probe, for i1, i2,   *)
(* ... the working set in order; an invocation is begun only when every    *)
(* earlier one has returned; nothing is invoked after the probe.           *)
(***************************************************************************)
C9_StageOrdering ==
    /\ IsPrefix(Started(trace), Expected(ifaces))
    /\ \A j \in 1..Len(trace) :
         /\ (trace[j].ev = "spawn" /\ j < Len(trace)) =>
               /\ trace[j + 1].ev = "exit"
               /\ trace[j + 1].cmd = trace[j].cmd
               /\ trace[j + 1].args = trace[j].args
         /\ trace[j].ev = "exit" =>
               /\ j > 1
               /\ trace[j - 1].ev = "spawn"
         /\ trace[j].cmd = "ping" =>
               \A m \in (j + 1)..Len(trace) : trace[m].cmd = "ping"
    /\ (\E j \in 1..Len(trace) : trace[j].cmd = "ping") =>
          Cardinality({j \in Finished : trace[j].cmd # "ping"}) = 2 * Len(ifaces)

\* The probe has been launched after two interfaces were processed.
C9_Witness ==
    /\ pc = "ping_wait"
    /\ Len(ifaces) = 2
    /\ Len(Started(trace)) = 5
    /\ Cardinality(Finished) = 4

(***************************************************************************)
(* C10  Run to completion without retries: every run reaches the process   *)
(* exit, and has then performed exactly one link-up and one DHCP           *)
(* invocation per element of the working set and exactly one probe, 2n+1   *)
(* invocations in all, whatever failed.                                    *)
(***************************************************************************)
C10_RunsToCompletion ==
    /\ <>(pc = "done")
    /\ [](pc = "done" =>
            /\ Cardinality(Finished) = 2 * Len(ifaces) + 1
            /\ Len(Started(trace)) = 2 * Len(ifaces) + 1
            /\ \A k \in 1..Len(ifaces) :
                 /\ Cardinality(CallsOf("ip", LinkArgs(ifaces[k]))) = 1
                 /\ Cardinality(CallsOf("dhclient", DhcpArgs(ifaces[k]))) = 1
            /\ Cardinality(CallsOf("ping", PingArgs)) = 1)

\* Every command of a run over three interfaces failed, and the run is over.
C10_Witness ==
    /\ pc = "done"
    /\ Len(ifaces) = 3
    /\ Cardinality(Finished) = 7
    /\ \A j \in Finished : OutcomeAt(j) # "success"
    /\ \E j \in Finished : OutcomeAt(j) = "launchfail"
    /\ \E j \in Finished : OutcomeAt(j) = "nonzero"

====
